---- MODULE Spec2Model ----
(***************************************************************************)
(* Tabular TD(lambda) learner for 2048 (src/play.py): the Node and         *)
(* Knowledge classes, the epsilon-greedy episode loop, the truncated       *)
(* TD(lambda) target computation, the rolling statistics and the reports.  *)
(*                                                                         *)
(* Python floats are modelled as exact rationals <<n, d>> (d > 0, lowest   *)
(* terms); the environment (gym 2048) is external and is modelled as a     *)
(* nondeterministic source of observations, rewards and done flags.        *)
(***************************************************************************)
EXTENDS Integers, Sequences, FiniteSets, TLC

----------------------------------------------------------------------------
(* Bounds of the model *)

\* longest trajectory handed to the target computation on its own
MaxTraj == 11

\* number of distinct board fingerprints the environment can show
NumStates == 2

\* number of add calls in a run of the Knowledge interface on its own
MaxAdds == 2

\* episodes of a training run on a single board (--episodes)
MaxEpisodes == 3

\* largest limit handed to dump on its own
MaxLimit == 2

\* steps of one episode: stands for the 1000 of "for t in range(1000)"
StepCap == 2

\* slots of a rolling buffer: stands for the 100 of np.zeros(100) and "% 100"
Window == 2

----------------------------------------------------------------------------
(* Exact rational arithmetic standing for Python float arithmetic *)

Abs(x) == IF x < 0 THEN -x ELSE x

Min(a, b) == IF a < b THEN a ELSE b

RECURSIVE GCD(_, _)
GCD(a, b) == IF b = 0 THEN a ELSE GCD(b, a % b)

Rat(n, d) ==
    LET g == GCD(Abs(n), d)
    IN  IF n = 0 THEN <<0, 1>> ELSE <<n \div g, d \div g>>

RatOf(i) == <<i, 1>>

Zero == RatOf(0)

One == RatOf(1)

RatAdd(x, y) ==
    LET g == GCD(x[2], y[2])
    IN  Rat(x[1] * (y[2] \div g) + y[1] * (x[2] \div g), (x[2] \div g) * y[2])

RatNeg(x) == <<-x[1], x[2]>>

RatSub(x, y) == RatAdd(x, RatNeg(y))

RatMul(x, y) ==
    LET a == Rat(x[1], y[2])
        b == Rat(y[1], x[2])
    IN  <<a[1] * b[1], a[2] * b[2]>>

RatLess(x, y) == RatSub(x, y)[1] < 0

RatLeq(x, y) == RatSub(x, y)[1] <= 0

RECURSIVE RatPow(_, _)
RatPow(x, k) == IF k = 0 THEN One ELSE RatMul(x, RatPow(x, k - 1))

RECURSIVE RatSum(_)
RatSum(s) == IF s = <<>> THEN Zero ELSE RatAdd(Head(s), RatSum(Tail(s)))

Half == Rat(1, 2)

Third == Rat(1, 3)

----------------------------------------------------------------------------
(* Program constants *)

\* range(1, min(10, len(history)))
Lookahead == 10

\* the four action slots of a Node
Actions == 0 .. 3

\* state fingerprints: tuple(observation), abstracted to an index
States == 0 .. NumStates - 1

----------------------------------------------------------------------------
VARIABLES
    alpha, epsilon, llambda, episodes, reportfrequency,
    nodes,
    previous_knowledge_size, total_moves, mse_vals, cr_vals, ht_vals,
    high_score,
    i_episode, observation, cumulative_reward, history, best_actions_used,
    t, done,
    td_lambda_estimate, idx,
    pc, env,
    record, moves_out, dumped, result,
    \* history variables: the last uniform draw, the cumulative rewards of
    \* the latest episodes, the states first inserted since the last record,
    \* the steps taken, the add calls of the current fold, the add calls of
    \* each (state, action) pair
    draw, recent, newSince, stepsTaken, addLog, addCalls

vars == <<alpha, epsilon, llambda, episodes, reportfrequency, nodes,
          previous_knowledge_size, total_moves, mse_vals, cr_vals, ht_vals,
          high_score, i_episode, observation, cumulative_reward, history,
          best_actions_used, t, done, td_lambda_estimate, idx,
          pc, env, record, moves_out, dumped, result,
          draw, recent, newSince, stepsTaken, addLog, addCalls>>

----------------------------------------------------------------------------
(* TD(lambda) targets of a finished trajectory *)

\* lambda_multiplier = (1. - llambda) * (llambda**td_factor)
lambda_multiplier(lam, td_factor) ==
    RatMul(RatSub(One, lam), RatPow(lam, td_factor))

\* for h in history: td_lambda_estimate.append(h[2] * lambda_multiplier)
td_base(hist, lam) ==
    [i \in 1 .. Len(hist) |->
        RatMul(RatOf(hist[i][3]), lambda_multiplier(lam, 0))]

\* for i in range(len(history) - td_factor):
\*     td_lambda_estimate[i] += history[i+td_factor][2] * lambda_multiplier
td_pass(est, hist, lam, td_factor) ==
    [i \in 1 .. Len(hist) |->
        IF i <= Len(hist) - td_factor
        THEN RatAdd(est[i], RatMul(RatOf(hist[i + td_factor][3]),
                                   lambda_multiplier(lam, td_factor)))
        ELSE est[i]]

\* variant: the end of the range included
td_stop_inclusive(n) == Min(Lookahead, n) + 1

\* the exclusive end of range(1, min(10, len(history)))
td_stop(n) == Min(Lookahead, n)

RECURSIVE td_loop(_, _, _, _)
td_loop(est, hist, lam, td_factor) ==
    IF td_factor >= td_stop(Len(hist))
    THEN est
    ELSE td_loop(td_pass(est, hist, lam, td_factor), hist, lam, td_factor + 1)

td_targets(hist, lam) == td_loop(td_base(hist, lam), hist, lam, 1)

----------------------------------------------------------------------------
(* class Node *)

\* Node.__init__
Node ==
    [action_quality |-> [a \in Actions |-> Zero],
     action_count   |-> [a \in Actions |-> 0]]

\* Node.get_estimate
node_get_estimate(node, a) == node.action_quality[a]

\* variant: the quality moves, the count does not
update_action_no_count(node, a, score, al) ==
    [node EXCEPT !.action_quality[a] =
        RatAdd(@, RatMul(RatSub(score, @), al))]

\* Node.update_action
update_action(node, a, score, al) ==
    [action_count   |-> [node.action_count EXCEPT ![a] = @ + 1],
     action_quality |-> [node.action_quality EXCEPT ![a] =
                            RatAdd(@, RatMul(RatSub(score, @), al))]]

\* Node.visited: sum(self.action_count)
visited(node) ==
    node.action_count[0] + node.action_count[1]
    + node.action_count[2] + node.action_count[3]

\* max(self.action_quality), scanning the list from the left
RECURSIVE max_quality(_, _)
max_quality(q, i) ==
    IF i = 0 THEN q[0]
    ELSE LET m == max_quality(q, i - 1)
         IN  IF RatLess(m, q[i]) THEN q[i] ELSE m

\* variant, the commented-out line 51:
\* self.action_quality.index(max(self.action_quality))
best_action_first(node) ==
    LET m == max_quality(node.action_quality, 3)
        J == {i \in Actions : node.action_quality[i] = m}
    IN  {CHOOSE i \in J : \A j \in J : i <= j}

\* Node.best_action: the set random.choice(joint_best_actions) draws from
best_action(node) ==
    LET m == max_quality(node.action_quality, 3)
    IN  {i \in Actions : node.action_quality[i] = m}

----------------------------------------------------------------------------
(* class Knowledge: nodes is a function from the known states to Nodes *)

\* Knowledge.__init__
EmptyNodes == [s \in {} |-> Node]

\* Knowledge.add
add(ns, s, a, score, al) ==
    LET created == IF s \in DOMAIN ns THEN ns ELSE ns @@ (s :> Node)
    IN  [created EXCEPT ![s] = update_action(@, a, score, al)]

\* Knowledge.get_node_for_state: <<node>>, or <<>> for None (KeyError)
get_node_for_state(ns, s) == IF s \in DOMAIN ns THEN <<ns[s]>> ELSE <<>>

\* variant: another default for an unknown state
get_estimate_one(ns, s, a) ==
    LET n == get_node_for_state(ns, s)
    IN  IF n = <<>> THEN One ELSE node_get_estimate(n[1], a)

\* Knowledge.get_estimate: None has no get_estimate (AttributeError) -> 0.
get_estimate(ns, s, a) ==
    LET n == get_node_for_state(ns, s)
    IN  IF n = <<>> THEN Zero ELSE node_get_estimate(n[1], a)

\* Knowledge.size
size(ns) == Cardinality(DOMAIN ns)

\* sorted(self.nodes.items(), key=visited, reverse=True): every order of the
\* items with non-increasing visit counts (the dict's own order is arbitrary)
sorted_items(ns) ==
    {p \in [1 .. size(ns) -> DOMAIN ns] :
        /\ \A i, j \in 1 .. size(ns) : i # j => p[i] # p[j]
        /\ \A i, j \in 1 .. size(ns) :
              i < j => visited(ns[p[i]]) >= visited(ns[p[j]])}

\* how many items dump prints: count += 1 after the print, then
\* "if limit and count > limit: break"
dump_count(n, limit) ==
    IF limit # 0 /\ n > limit THEN limit + 1 ELSE n

\* Knowledge.dump: the listings it can print
dump(ns, limit) ==
    {SubSeq(p, 1, dump_count(size(ns), limit)) : p \in sorted_items(ns)}

----------------------------------------------------------------------------
(* The training run (__main__) *)

\* values random.uniform(0, 1) can return
Draws == {Zero, Half, One}

\* env.highest(): the highest tile of the board with fingerprint obs
highest(obs) == 2 * (obs + 1)

\* np.zeros(100)
zeros == [k \in 0 .. Window - 1 |-> Zero]

RECURSIVE buffer_sum(_, _)
buffer_sum(buf, k) ==
    IF k < 0 THEN Zero ELSE RatAdd(buf[k], buffer_sum(buf, k - 1))

\* numpy mean of a rolling buffer
mean(buf) == RatMul(buffer_sum(buf, Window - 1), Rat(1, Window))

\* variant: the slot after the episode's own
slot_next(e) == (e + 1) % Window

\* the slot an episode overwrites: i_episode % 100
slot(e) == e % Window

\* mse = ((real_data - estimates) ** 2).mean(axis=None)
mean_squared_error(ns, hist, est) ==
    LET sq == [i \in 1 .. Len(hist) |->
                 LET d == RatSub(est[i], get_estimate(ns, hist[i][1], hist[i][2]))
                 IN  RatMul(d, d)]
    IN  RatMul(RatSum(sq), Rat(1, Len(hist)))

\* a pickled Knowledge that pickle.load can return
Loaded == 0 :> update_action(Node, 0, One, Half)

NoRecord == [episode |-> -1]

NoResult == [op |-> "none"]

\* the program's state right after "high_score = 0." (lines 98-119)
Startup ==
    /\ previous_knowledge_size = 0
    /\ total_moves = 0
    /\ mse_vals = zeros
    /\ cr_vals = zeros
    /\ ht_vals = zeros
    /\ high_score = 0
    /\ i_episode = 0
    /\ observation = 0
    /\ cumulative_reward = 0
    /\ best_actions_used = 0
    /\ t = 0
    /\ done = FALSE
    /\ td_lambda_estimate = <<>>
    /\ idx = 0
    /\ record = NoRecord
    /\ moves_out = -1
    /\ dumped = <<>>
    /\ result = NoResult
    /\ draw = Zero
    /\ recent = <<>>
    /\ newSince = 0
    /\ stepsTaken = 0
    /\ addLog = <<>>
    /\ addCalls = [s \in States, a \in Actions |-> 0]

\* the 2048 environment: any board may follow any move
FullEnv == [samples |-> Actions, rewards |-> {0, 1}, states |-> States]

\* an environment with one board and a one-action action space
OneBoardEnv == [samples |-> {0}, rewards |-> {0, 1}, states |-> {0}]

\* a training run: one episode of the full environment, or MaxEpisodes
\* episodes on a single board; the table starts empty or loaded from a file
Init ==
    /\ Startup
    /\ alpha = Half
    /\ llambda = Half
    /\ nodes \in {EmptyNodes, Loaded}
    /\ history = <<>>
    /\ \/ /\ env = FullEnv
          /\ episodes = 1
          /\ epsilon \in {Zero, Half}
          /\ reportfrequency = 1
       \/ /\ env = OneBoardEnv
          /\ episodes = MaxEpisodes
          /\ epsilon = Half
          /\ reportfrequency \in {1, 2}
    /\ pc = "reset"

\* observation = env.reset() ... best_actions_used = 0 (lines 122-125)
Reset ==
    /\ pc = "reset"
    /\ i_episode < episodes
    /\ observation' \in env.states
    /\ cumulative_reward' = 0
    /\ history' = <<>>
    /\ best_actions_used' = 0
    /\ t' = 0
    /\ pc' = "step"
    /\ UNCHANGED <<alpha, epsilon, llambda, episodes, reportfrequency, nodes,
                   previous_knowledge_size, total_moves, mse_vals, cr_vals,
                   ht_vals, high_score, i_episode, done, td_lambda_estimate,
                   idx, env, record, moves_out, dumped, result, draw, recent,
                   newSince, stepsTaken, addLog, addCalls>>

\* variant: "if (random.uniform(0, 1) >= epsilon)"
exploits_geq(r, eps, ns, obs) ==
    /\ RatLeq(eps, r)
    /\ get_node_for_state(ns, obs) # <<>>

\* "if (random.uniform(0, 1) > epsilon)" and "if knowledge.get_node_for_
\* state(tuple(observation))": a Node is always true
exploits(r, eps, ns, obs) ==
    /\ RatLess(eps, r)
    /\ get_node_for_state(ns, obs) # <<>>

\* variant: one pass more
more_steps_one_over(tt) == tt + 1 <= StepCap

\* "for t in range(1000)": whether another pass follows pass tt
more_steps(tt) == tt + 1 < StepCap

\* one pass of the body of "for t in range(1000)" (lines 129-153)
Step ==
    /\ pc = "step"
    /\ \E r \in Draws, sample \in env.samples, obs \in env.states,
          reward \in env.rewards, d \in BOOLEAN :
          /\ IF exploits(r, epsilon, nodes, observation)
             THEN /\ \E a \in best_action(get_node_for_state(nodes, observation)[1]) :
                       history' = Append(history, <<observation, a, reward>>)
                  /\ best_actions_used' = best_actions_used + 1
             ELSE /\ history' = Append(history, <<observation, sample, reward>>)
                  /\ UNCHANGED best_actions_used
          /\ draw' = r
          /\ observation' = obs
          /\ done' = d
          /\ cumulative_reward' = cumulative_reward + reward
          /\ stepsTaken' = stepsTaken + 1
          /\ IF d
             THEN /\ total_moves' = total_moves + (t + 1)
                  /\ pc' = "targets"
                  /\ UNCHANGED t
             ELSE /\ UNCHANGED total_moves
                  /\ IF more_steps(t)
                     THEN t' = t + 1 /\ pc' = "step"
                     ELSE UNCHANGED t /\ pc' = "targets"
    /\ UNCHANGED <<alpha, epsilon, llambda, episodes, reportfrequency, nodes,
                   previous_knowledge_size, mse_vals, cr_vals, ht_vals,
                   high_score, i_episode, td_lambda_estimate, idx, env, record,
                   moves_out, dumped, result, recent, newSince, addLog, addCalls>>

\* the TD(lambda) estimates of the episode (lines 158-171)
Targets ==
    /\ pc = "targets"
    /\ td_lambda_estimate' = td_targets(history, llambda)
    /\ draw' = Zero
    /\ pc' = "mse"
    /\ UNCHANGED <<alpha, epsilon, llambda, episodes, reportfrequency, nodes,
                   previous_knowledge_size, total_moves, mse_vals, cr_vals,
                   ht_vals, high_score, i_episode, observation,
                   cumulative_reward, history, best_actions_used, t, done, idx,
                   env, record, moves_out, dumped, result, recent, newSince,
                   stepsTaken, addLog, addCalls>>

\* the episode's error and the three buffer writes (lines 174-183)
Score ==
    /\ pc = "mse"
    /\ mse_vals' = [mse_vals EXCEPT ![slot(i_episode)] =
                        mean_squared_error(nodes, history, td_lambda_estimate)]
    /\ cr_vals' = [cr_vals EXCEPT ![slot(i_episode)] = RatOf(cumulative_reward)]
    /\ ht_vals' = [ht_vals EXCEPT ![slot(i_episode)] = RatOf(highest(observation))]
    /\ recent' = LET r == Append(recent, cumulative_reward)
                 IN  IF Len(r) > Window THEN Tail(r) ELSE r
    /\ pc' = "fold"
    /\ UNCHANGED <<alpha, epsilon, llambda, episodes, reportfrequency, nodes,
                   previous_knowledge_size, total_moves, high_score, i_episode,
                   observation, cumulative_reward, history, best_actions_used, t,
                   done, td_lambda_estimate, idx, env, record, moves_out, dumped,
                   result, draw, newSince, stepsTaken, addLog, addCalls>>

\* one pass of "for idx, h in enumerate(history): knowledge.add(...)"
\* (lines 187-188)
Fold ==
    /\ pc = "fold"
    /\ idx < Len(history)
    /\ LET h == history[idx + 1]
       IN  /\ nodes' = add(nodes, h[1], h[2], td_lambda_estimate[idx + 1], alpha)
           /\ newSince' = IF h[1] \in DOMAIN nodes THEN newSince ELSE newSince + 1
           /\ addLog' = Append(addLog, <<h[1], h[2]>>)
    /\ idx' = idx + 1
    /\ UNCHANGED <<alpha, epsilon, llambda, episodes, reportfrequency,
                   previous_knowledge_size, total_moves, mse_vals, cr_vals,
                   ht_vals, high_score, i_episode, observation,
                   cumulative_reward, history, best_actions_used, t, done,
                   td_lambda_estimate, pc, env, record, moves_out, dumped,
                   result, draw, recent, stepsTaken, addCalls>>

\* the high score and the periodic summary record (lines 191-195); the
\* episode's estimates and fold position are dead from here on (line 158
\* rebuilds the list before any read) and are dropped
Report ==
    /\ pc = "fold"
    /\ idx = Len(history)
    /\ high_score' = IF cumulative_reward > high_score
                     THEN cumulative_reward ELSE high_score
    /\ IF i_episode % reportfrequency = 0
       THEN /\ record' = [episode |-> i_episode,
                          steps |-> t + 1,
                          mean_cr |-> mean(cr_vals),
                          high_score |-> high_score',
                          mean_ht |-> mean(ht_vals),
                          best_actions_used |-> best_actions_used,
                          known |-> size(nodes),
                          learnt |-> size(nodes) - previous_knowledge_size,
                          mse |-> mean(mse_vals)]
            /\ previous_knowledge_size' = size(nodes)
            /\ newSince' = 0
       ELSE UNCHANGED <<record, previous_knowledge_size, newSince>>
    /\ i_episode' = i_episode + 1
    /\ td_lambda_estimate' = <<>>
    /\ idx' = 0
    /\ addLog' = <<>>
    /\ pc' = "reset"
    /\ UNCHANGED <<alpha, epsilon, llambda, episodes, reportfrequency, nodes,
                   total_moves, mse_vals, cr_vals, ht_vals, observation,
                   cumulative_reward, history, best_actions_used, t, done, env,
                   moves_out, dumped, result, draw, recent, stepsTaken, addCalls>>

\* after the last episode: the moves line and knowledge.dump(10)
\* (lines 197-206)
Finish ==
    /\ pc = "reset"
    /\ i_episode >= episodes
    /\ moves_out' = total_moves
    /\ dumped' \in dump(nodes, 10)
    /\ pc' = "done"
    /\ UNCHANGED <<alpha, epsilon, llambda, episodes, reportfrequency, nodes,
                   previous_knowledge_size, total_moves, mse_vals, cr_vals,
                   ht_vals, high_score, i_episode, observation,
                   cumulative_reward, history, best_actions_used, t, done,
                   td_lambda_estimate, idx, env, record, result, draw, recent,
                   newSince, stepsTaken, addLog, addCalls>>

Next == Reset \/ Step \/ Targets \/ Score \/ Fold \/ Report \/ Finish

Spec == Init /\ [][Next]_vars

----------------------------------------------------------------------------
(* The target computation on its own: any trajectory of up to MaxTraj steps *)

RewardSeqs(n) == [1 .. n -> {0, 1}]

InitTD ==
    /\ Startup
    /\ alpha = Half
    /\ epsilon = Half
    /\ llambda \in {Zero, Half, Third}
    /\ episodes = 1
    /\ reportfrequency = 1
    /\ nodes = EmptyNodes
    /\ env = OneBoardEnv
    /\ \E n \in 1 .. MaxTraj : \E rs \in RewardSeqs(n) :
          history = [i \in 1 .. n |-> <<0, 0, rs[i]>>]
    /\ pc = "targets"

NextTD == Targets

SpecTD == InitTD /\ [][NextTD]_vars

----------------------------------------------------------------------------
(* The Knowledge interface on its own: any sequence of add calls, and one  *)
(* query of the table as those adds left it                                *)

RECURSIVE AddsUpTo(_)
AddsUpTo(s) ==
    IF s < 0 THEN 0
    ELSE addCalls[s, 0] + addCalls[s, 1] + addCalls[s, 2] + addCalls[s, 3]
         + AddsUpTo(s - 1)

\* add calls made so far
TotalAdds == AddsUpTo(NumStates - 1)

InitK ==
    /\ Startup
    /\ alpha \in {Half, One}
    /\ epsilon = Half
    /\ llambda = Half
    /\ episodes = 0
    /\ reportfrequency = 1
    /\ nodes = EmptyNodes
    /\ history = <<>>
    /\ env = FullEnv
    /\ pc = "api"

\* knowledge.add(s, a, score, alpha)
KAdd ==
    /\ pc = "api"
    /\ TotalAdds < MaxAdds
    /\ \E s \in States, a \in Actions, score \in {Zero, One} :
          /\ nodes' = add(nodes, s, a, score, alpha)
          /\ addCalls' = [addCalls EXCEPT ![s, a] = @ + 1]
    /\ result' = NoResult
    /\ UNCHANGED <<alpha, epsilon, llambda, episodes, reportfrequency,
                   previous_knowledge_size, total_moves, mse_vals, cr_vals,
                   ht_vals, high_score, i_episode, observation,
                   cumulative_reward, history, best_actions_used, t, done,
                   td_lambda_estimate, idx, pc, env, record, moves_out, dumped,
                   draw, recent, newSince, stepsTaken, addLog>>

\* knowledge.get_estimate(s, a)
KGetEstimate ==
    /\ pc = "api"
    /\ result = NoResult
    /\ \E s \in States, a \in Actions :
          result' = [op |-> "get_estimate", state |-> s, action |-> a,
                     value |-> get_estimate(nodes, s, a),
                     size_before |-> size(nodes)]
    /\ UNCHANGED <<alpha, epsilon, llambda, episodes, reportfrequency, nodes,
                   previous_knowledge_size, total_moves, mse_vals, cr_vals,
                   ht_vals, high_score, i_episode, observation,
                   cumulative_reward, history, best_actions_used, t, done,
                   td_lambda_estimate, idx, pc, env, record, moves_out, dumped,
                   draw, recent, newSince, stepsTaken, addLog, addCalls>>

\* knowledge.get_node_for_state(s).best_action()
KBestAction ==
    /\ pc = "api"
    /\ result = NoResult
    /\ \E s \in DOMAIN nodes : \E b \in best_action(nodes[s]) :
          result' = [op |-> "best_action", state |-> s, value |-> b]
    /\ UNCHANGED <<alpha, epsilon, llambda, episodes, reportfrequency, nodes,
                   previous_knowledge_size, total_moves, mse_vals, cr_vals,
                   ht_vals, high_score, i_episode, observation,
                   cumulative_reward, history, best_actions_used, t, done,
                   td_lambda_estimate, idx, pc, env, record, moves_out, dumped,
                   draw, recent, newSince, stepsTaken, addLog, addCalls>>

\* knowledge.dump(limit)
KDump ==
    /\ pc = "api"
    /\ result = NoResult
    /\ \E limit \in 0 .. MaxLimit :
          /\ dumped' \in dump(nodes, limit)
          /\ result' = [op |-> "dump", limit |-> limit]
    /\ UNCHANGED <<alpha, epsilon, llambda, episodes, reportfrequency, nodes,
                   previous_knowledge_size, total_moves, mse_vals, cr_vals,
                   ht_vals, high_score, i_episode, observation,
                   cumulative_reward, history, best_actions_used, t, done,
                   td_lambda_estimate, idx, pc, env, record, moves_out, draw,
                   recent, newSince, stepsTaken, addLog, addCalls>>

NextK == KAdd \/ KGetEstimate \/ KBestAction \/ KDump

SpecK == InitK /\ [][NextK]_vars

----------------------------------------------------------------------------
(* Properties *)

Reward(hist, i) == RatOf(hist[i][3])

\* sum over k in 0 .. K with i + k <= n of (1 - lam) * lam^k * r[i + k]
RECURSIVE WeightedReturn(_, _, _, _)
WeightedReturn(hist, lam, i, K) ==
    IF K < 0 THEN Zero
    ELSE RatAdd(WeightedReturn(hist, lam, i, K - 1),
                IF i + K <= Len(hist)
                THEN RatMul(RatMul(RatSub(One, lam), RatPow(lam, K)),
                            Reward(hist, i + K))
                ELSE Zero)

Computed == pc = "mse" /\ Len(td_lambda_estimate) = Len(history)

\* C1 as stated: every target is the base term plus the lookahead terms
\* k = 1 .. min(10, n-1), both ends included.
C1_LookaheadThroughTen ==
    Computed =>
        \A i \in 1 .. Len(history) :
            td_lambda_estimate[i] =
                WeightedReturn(history, llambda, i, Min(10, Len(history) - 1))

\* C1 amended: every target is the base term plus the lookahead terms
\* k = 1 .. min(9, n-1); for n = 1 only the base term is present, and for
\* rewards [1,0,0,0] with lambda = 0.5 target[0] = 0.5 and target[3] = 0.
C1_LookaheadThroughNine ==
    Computed =>
        /\ \A i \in 1 .. Len(history) :
              td_lambda_estimate[i] =
                  WeightedReturn(history, llambda, i, Min(9, Len(history) - 1))
        /\ Len(history) = 1 =>
              td_lambda_estimate[1] =
                  RatMul(RatSub(One, llambda), Reward(history, 1))
        /\ (/\ Len(history) = 4
             /\ llambda = Half
             /\ \A i \in 1 .. 4 : history[i][3] = (IF i = 1 THEN 1 ELSE 0))
              => td_lambda_estimate[1] = Half /\ td_lambda_estimate[4] = Zero

\* a trajectory of more than ten steps whose eleventh reward is not zero
C1_Witness ==
    /\ Computed
    /\ Len(history) > 10
    /\ history[11][3] = 1
    /\ llambda = Half

CallCount(s, a) == IF s \in DOMAIN nodes THEN nodes[s].action_count[a] ELSE 0

\* C2: from an empty Knowledge, the action_count of every (state, action)
\* pair equals the number of add calls made for exactly that pair, so each
\* add raises its own pair's count by one and no other count.
C2_CountIsAddCalls ==
    pc = "api" =>
        \A s \in States, a \in Actions : CallCount(s, a) = addCalls[s, a]

\* one pair added twice next to a pair never added in the same node
C2_Witness ==
    /\ pc = "api"
    /\ \E s \in DOMAIN nodes, a, b \in Actions :
          /\ a # b
          /\ addCalls[s, a] = 2
          /\ nodes[s].action_count[a] = 2
          /\ nodes[s].action_count[b] = 0

Maximal(node) ==
    {a \in Actions :
        \A b \in Actions : RatLeq(node.action_quality[b], node.action_quality[a])}

Added == {s \in States : \E a \in Actions : addCalls[s, a] > 0}

C5_DumpListsLimit ==
    (pc = "api" /\ result.op = "dump" /\ result.limit >= 1) =>
        /\ Len(dumped) = Min(result.limit, size(nodes))
        /\ \A i, j \in 1 .. Len(dumped) :
              i < j => visited(nodes[dumped[i]]) >= visited(nodes[dumped[j]])
        /\ \A i \in 1 .. Len(dumped) :
              \A s \in DOMAIN nodes :
                  (\A j \in 1 .. Len(dumped) : dumped[j] # s)
                      => visited(nodes[dumped[i]]) >= visited(nodes[s])

\* episodes whose buffer writes are done
Scored == IF pc = "fold" THEN i_episode + 1 ELSE i_episode

RECURSIVE SeqSum(_)
SeqSum(q) == IF q = <<>> THEN 0 ELSE Head(q) + SeqSum(Tail(q))

\* C6: episode e writes slot e mod Window of each buffer and no other slot,
\* so a report made once Window episodes are through shows the mean of the
\* Window most recent cumulative rewards (v when all of them are v).
C6_RollingWindow ==
    pc \in {"reset", "step", "targets", "mse", "fold", "done"} =>
        /\ \A j \in 1 .. Len(recent) :
              cr_vals[(Scored - Len(recent) + j - 1) % Window] = RatOf(recent[j])
        /\ \A k \in 0 .. Window - 1 :
              k >= Scored => cr_vals[k] = Zero /\ ht_vals[k] = Zero /\ mse_vals[k] = Zero
        /\ pc = "fold" =>
              /\ cr_vals[i_episode % Window] = RatOf(cumulative_reward)
              /\ ht_vals[i_episode % Window] = RatOf(highest(observation))
              /\ idx = 0 =>
                    mse_vals[i_episode % Window] =
                        mean_squared_error(nodes, history, td_lambda_estimate)
        /\ (/\ pc # "fold"
             /\ record # NoRecord
             /\ record.episode = i_episode - 1
             /\ i_episode >= Window) =>
              /\ Len(recent) = Window
              /\ record.mean_cr = Rat(SeqSum(recent), Window)
              /\ \A v \in 0 .. StepCap :
                    (\A j \in 1 .. Window : recent[j] = v) => record.mean_cr = RatOf(v)

\* a report after an early slot was overwritten, over unequal episodes
C6_Witness ==
    /\ pc = "reset"
    /\ record # NoRecord
    /\ record.episode = i_episode - 1
    /\ i_episode > Window
    /\ recent[1] # recent[Window]
    /\ record.mean_cr # Zero

\* C7: an episode ends at the first done or after StepCap steps; the
\* trajectory has one triple per step taken, as many as the reported step
\* count; done or not, it is folded with one add per step, in order.
C7_EpisodeLength ==
    /\ pc = "step" =>
          /\ Len(history) = t
          /\ t < StepCap
          /\ t > 0 => ~done
    /\ pc \in {"targets", "mse", "fold"} =>
          /\ Len(history) = t + 1
          /\ 1 <= Len(history) /\ Len(history) <= StepCap
          /\ done \/ Len(history) = StepCap
    /\ pc = "fold" =>
          /\ idx <= Len(history)
          /\ addLog = [i \in 1 .. idx |-> <<history[i][1], history[i][2]>>]
    /\ (pc \in {"reset", "done"} /\ record # NoRecord
            /\ record.episode = i_episode - 1) =>
          record.steps = Len(history)

\* an episode cut off by the cap without done, wholly folded
C7_Witness ==
    /\ pc = "fold"
    /\ ~done
    /\ Len(history) = StepCap
    /\ idx = Len(history)
    /\ Len(addLog) = StepCap

\* C8 as stated: every summary record shows as newly learnt the number of
\* states first inserted since the previous record (since the start for the
\* first one) and as known the size of the table, loaded from a file or not.
C8_LearntSinceReport ==
    [][record' # record =>
        /\ record'.learnt = newSince
        /\ record'.known = size(nodes)]_vars

\* C9: best_action can return exactly the actions whose quality is the
\* maximum of the four: each of them, and no other; all four on a fresh node.
C9_BestAction ==
    pc = "api" =>
        /\ \A s \in DOMAIN nodes : best_action(nodes[s]) = Maximal(nodes[s])
        /\ best_action(Node) = Actions
        /\ result.op = "best_action" =>
              result.value \in Maximal(nodes[result.state])

\* best_action answered with an action that is not the first of two or
\* three joint best ones
C9_Witness ==
    /\ pc = "api"
    /\ result.op = "best_action"
    /\ Cardinality(Maximal(nodes[result.state])) \in {2, 3}
    /\ \E a \in Maximal(nodes[result.state]) : a < result.value

\* C10 as stated: the moves figure printed at the end is the number of
\* steps taken over all episodes, capped episodes included.
C10_TotalMoves ==
    pc = "done" => moves_out = stepsTaken

====
